---------------------------- MODULE Spec2Model ----------------------------
(***************************************************************************)
(* hanau: a session layer over WebSocket.  A HanauClient talks to a        *)
(* HanauServer over a bounded number of physical connections.  The server  *)
(* half follows the server source with handshake_ack and deferred replay,  *)
(* the client half follows the client source with the outbound queue.      *)
(*                                                                         *)
(* Every event handler (a socket callback, a timer callback, an API call)  *)
(* is one action.  Six environments drive them:                            *)
(*   Spec          the client and the server together, over a network      *)
(*                 that loses connections;                                 *)
(*   SpecServer    the server facing peers that send what they like;       *)
(*   SpecClient    the client facing a server that sends what it likes;    *)
(*   SpecKeepalive the client's ping interval against a server that        *)
(*                 answers pings or does not;                              *)
(*   SpecHistory   the server sending past its history limit;              *)
(*   SpecHeartbeat the server's 30 s sweep against peers that answer       *)
(*                 pings or do not.                                        *)
(***************************************************************************)
EXTENDS Integers, Sequences, FiniteSets, TLC

\* ------------------------------------------------------------- bounds
\* physical connections opened in one behaviour
MaxConns == 2
\* cap on a server connection's outbound counter
MaxSentId == 3
\* cap on the client's outbound counter
MaxClientSentId == 3
\* cap on the ids the server stamps in SpecHistory, over all connections
MaxHistorySent == 104
\* setImmediate callbacks pending at once in SpecServer
MaxImmediates == 1
\* handshake hooks registered at most
MaxHooks == 2
\* message handlers suspended in a hook at most
MaxAwaiting == 2
\* the bytes of one frame (two unread frames exceed the backpressure threshold)
FrameBytes == 3000000

\* ------------------------------------------------- program constants
\* "history limit is 100"
HistoryLimit == 100
\* "if (this.reconnectCount > 5)"
ReconnectLimit == 5
\* oldWs.close(4002, "duplicate session")
DuplicateSession == 4002
\* extWs.close(4001, "handshake missing sessionId")
MissingSessionId == 4001
\* extWs.close(4003, "handshake required")
HandshakeRequired == 4003
\* the backpressure threshold of send(), in bytes
BufferLimit == 5000000

Conns == 1 .. MaxConns
NoConn == 0
\* the client's hanauSessionID
SessionID == "s1"
Sessions == {SessionID}
\* no sessionId (undefined) on a server socket or in a handshake payload
NoSession == ""

VARIABLES
  \* ---- server: one HanauWebSocket per connection
  wsReadyState,      \* "NONE" (not accepted yet), "OPEN", "CLOSING", "TERMINATED", "CLOSED"
  wsCloseCode,       \* the code of the close() that started the closing handshake, else 0
  wsIsAlive,         \* extWs.isAlive
  wsLastSentId,      \* extWs.lastSentId
  wsSessionId,       \* extWs.sessionId
  wsPinged,          \* a protocol-level ping is on its way to the peer
  clients,           \* this.clients: sessionId -> connection, NoConn when absent
  clientHistories,   \* this.clientHistories: sessionId -> packets in insertion order
  immediates,        \* setImmediate callbacks not yet run, in order
  handshakeListeners,\* this.handshakeListeners: the number of hooks registered
  awaiting,          \* message handlers suspended at "await hook(...)", in order of arrival
  connected,         \* calls of the connection listeners, per connection
  disconnected,      \* calls of the disconnection listeners, per connection that caused them
  handled,           \* a handler of this.messageListeners has run for a message of the connection
  \* ---- the network: frames in flight, per connection and direction
  c2s,
  s2c,
  \* ---- client: HanauClient
  ws,                \* this.ws: the connection of the current WebSocket, NoConn for null
  readyState,        \* readyState of each WebSocket created ("NONE" before)
  alive,
  lastSentId,
  lastReceivedId,
  reconnectCount,
  mayReconnect,
  handshakeComplete,
  unsentQueue,
  pingInterval,      \* the ping interval timer is running
  handshakeTimeout,  \* this._handshakeTimeout: the handle set last
  handshakeTimers,   \* handshake timers set and neither fired nor cleared
  reconnectTimers,   \* number of reconnect timers pending
  opened,            \* connections created so far
  \* ---- observation
  ackSeen,           \* connections on which the client received a handshake_ack
  closeListenerCalls,\* calls of the client's close listeners
  sendReturned,      \* the last call of HanauServer.send returned at its first test
  delivered          \* the packets with a non-zero id the client invoked listeners
                     \* for, in order, as [id, command]

serverVars == <<wsReadyState, wsCloseCode, wsIsAlive, wsLastSentId, wsSessionId,
                wsPinged, clients, clientHistories, immediates, handshakeListeners,
                awaiting, connected, disconnected, handled>>
netVars == <<c2s, s2c>>
clientVars == <<ws, alive, lastSentId, lastReceivedId, reconnectCount,
                mayReconnect, handshakeComplete, unsentQueue, pingInterval,
                handshakeTimeout, handshakeTimers, reconnectTimers>>
obsVars == <<ackSeen, delivered, closeListenerCalls, sendReturned>>
vars == <<serverVars, netVars, clientVars, readyState, opened, obsVars>>

\* ------------------------------------------------------------ packets
NullData == [sessionId |-> NoSession, lastReceivedId |-> 0]

Packet(id, command, data) == [id |-> id, command |-> command, data |-> data]

\* A packet on the wire.  replayOf is the lastReceivedId of the handshake whose
\* replay wrote the frame, -1 for any other frame (not part of the payload).
Frame(packet, replayOf) ==
  [id |-> packet.id, command |-> packet.command, data |-> packet.data,
   replayOf |-> replayOf]

\* Math.min / Math.max of the numbers in a non-empty sequence
SeqMin(s) == CHOOSE m \in {s[i] : i \in 1 .. Len(s)} : \A i \in 1 .. Len(s) : m <= s[i]

SeqMax(s) == CHOOSE m \in {s[i] : i \in 1 .. Len(s)} : \A i \in 1 .. Len(s) : m >= s[i]

Keys(history) == {history[i].id : i \in 1 .. Len(history)}

KeySeq(history) == [i \in 1 .. Len(history) |-> history[i].id]

\* ------------------------------------------------- the ws library's sockets
\* ws.send / ws.ping on a socket that is not OPEN writes nothing (and does not throw)
Transmits(rs, c) == rs[c] = "OPEN"

\* the peer still reads what arrives on the connection
ClientReads(c) == readyState[c] \in {"CONNECTING", "OPEN"}
ServerReads(rs, c) == rs[c] \in {"OPEN", "CLOSING"}

\* ws.close(code, reason): starts the closing handshake of an OPEN socket
wsClose(rs, c) == IF rs[c] = "OPEN" THEN [rs EXCEPT ![c] = "CLOSING"] ELSE rs

wsCloseWith(codes, rs, c, code) == IF rs[c] = "OPEN" THEN [codes EXCEPT ![c] = code] ELSE codes

\* ws.terminate(): destroys the socket; its close event follows
wsTerminate(rs, c) ==
  IF rs[c] \in {"OPEN", "CLOSING"} THEN [rs EXCEPT ![c] = "TERMINATED"] ELSE rs

\* HanauServer._send(ws, packet)
_send(ch, rs, c, frame) ==
  IF Transmits(rs, c) /\ ClientReads(c) THEN [ch EXCEPT ![c] = Append(@, frame)] ELSE ch

\* ------------------------------------------------------ history (a Map)
\* history.set(packet.id, packet): a new key goes last, an old key keeps its place
HistorySet(history, packet) ==
  IF packet.id \in Keys(history)
    THEN [i \in 1 .. Len(history) |->
            IF history[i].id = packet.id THEN packet ELSE history[i]]
    ELSE Append(history, packet)

\* history.delete(id)
HistoryDelete(history, id) == SelectSeq(history, LAMBDA e : e.id # id)

\* Math.min(...history.keys())
OldestId(history) == SeqMin(KeySeq(history))

\* history.delete of the largest key instead of the smallest
HistoryTrimNewest(history) ==
  IF Len(history) > HistoryLimit
    THEN HistoryDelete(history, SeqMax(KeySeq(history)))
    ELSE history

\* "history limit is 100": after the set, drop the smallest key when over the limit
HistoryTrim(history) ==
  IF Len(history) > HistoryLimit
    THEN HistoryDelete(history, OldestId(history))
    ELSE history

\* the entries a replay sends for lastReceivedId = k, in the Map's iteration order
ReplayEntries(history, k) == SelectSeq(history, LAMBDA e : e.id > k)

\* --------------------------------------------------------------- server
\* wss.on("connection"): a new HanauWebSocket
wssConnection(c) ==
  /\ readyState[c] = "CONNECTING"
  /\ wsReadyState[c] = "NONE"
  /\ wsReadyState' = [wsReadyState EXCEPT ![c] = "OPEN"]
  /\ wsIsAlive' = [wsIsAlive EXCEPT ![c] = TRUE]
  /\ wsLastSentId' = [wsLastSentId EXCEPT ![c] = 0]
  /\ UNCHANGED <<wsCloseCode, wsSessionId, wsPinged, clients, clientHistories, immediates>>
  /\ UNCHANGED <<handshakeListeners, awaiting, connected, disconnected, handled>>
  /\ UNCHANGED <<netVars, clientVars, readyState, opened, obsVars>>

\* extWs.on("pong"): the peer's WebSocket answers a ping while it is connected
extWsPong(c) ==
  /\ wsPinged[c]
  /\ ServerReads(wsReadyState, c)
  /\ ClientReads(c)
  /\ wsPinged' = [wsPinged EXCEPT ![c] = FALSE]
  /\ wsIsAlive' = [wsIsAlive EXCEPT ![c] = TRUE]
  /\ UNCHANGED <<wsReadyState, wsCloseCode, wsLastSentId, wsSessionId, clients,
                 clientHistories, immediates>>
  /\ UNCHANGED <<handshakeListeners, awaiting, connected, disconnected, handled>>
  /\ UNCHANGED <<netVars, clientVars, readyState, opened, obsVars>>

\* the handshake branch without the eviction of the connection bound before
AcceptHandshakeKeepsOld(c, sessionId, k) ==
  LET ack == Packet(wsLastSentId[c] + 1, "handshake_ack", NullData)
  IN  /\ wsSessionId' = [wsSessionId EXCEPT ![c] = sessionId]
      /\ clients' = [clients EXCEPT ![sessionId] = c]
      /\ wsLastSentId' = [wsLastSentId EXCEPT ![c] = ack.id]
      /\ s2c' = _send(s2c, wsReadyState, c, Frame(ack, -1))
      /\ immediates' = Append(immediates,
                              [conn |-> c, sessionId |-> sessionId, lastReceivedId |-> k])
      /\ connected' = [connected EXCEPT ![c] = @ + 1]
      /\ UNCHANGED <<wsReadyState, wsCloseCode, wsIsAlive, wsPinged, clientHistories,
                     disconnected, handled>>

\* the handshake branch with the replay run inside the handler, ahead of the ack
AcceptHandshakeReplaysFirst(c, sessionId, k) ==
  LET oldWs == clients[sessionId]
      rs == IF oldWs # NoConn THEN wsClose(wsReadyState, oldWs) ELSE wsReadyState
      ack == Packet(wsLastSentId[c] + 1, "handshake_ack", NullData)
      entries == ReplayEntries(clientHistories[sessionId], k)
      replayed == IF Transmits(rs, c) /\ ClientReads(c)
                    THEN [s2c EXCEPT ![c] = @ \o [i \in 1 .. Len(entries) |->
                                                    Frame(entries[i], k)]]
                    ELSE s2c
  IN  /\ wsReadyState' = rs
      /\ wsCloseCode' = IF oldWs # NoConn
                          THEN wsCloseWith(wsCloseCode, wsReadyState, oldWs, DuplicateSession)
                          ELSE wsCloseCode
      /\ wsSessionId' = [wsSessionId EXCEPT ![c] = sessionId]
      /\ clients' = [clients EXCEPT ![sessionId] = c]
      /\ wsLastSentId' = [wsLastSentId EXCEPT ![c] = ack.id]
      /\ s2c' = _send(replayed, rs, c, Frame(ack, -1))
      /\ immediates' = immediates
      /\ connected' = [connected EXCEPT ![c] = @ + 1]
      /\ UNCHANGED <<wsIsAlive, wsPinged, clientHistories, disconnected, handled>>

\* the handshake branch of the message handler, from the eviction on:
\* evict, bind, handshake_ack, setImmediate, connection listeners
AcceptHandshake(c, sessionId, k) ==
  LET oldWs == clients[sessionId]
      rs == IF oldWs # NoConn THEN wsClose(wsReadyState, oldWs) ELSE wsReadyState
      ack == Packet(wsLastSentId[c] + 1, "handshake_ack", NullData)
  IN  /\ wsReadyState' = rs
      /\ wsCloseCode' = IF oldWs # NoConn
                          THEN wsCloseWith(wsCloseCode, wsReadyState, oldWs, DuplicateSession)
                          ELSE wsCloseCode
      /\ wsSessionId' = [wsSessionId EXCEPT ![c] = sessionId]
      /\ clients' = [clients EXCEPT ![sessionId] = c]
      /\ wsLastSentId' = [wsLastSentId EXCEPT ![c] = ack.id]
      /\ s2c' = _send(s2c, rs, c, Frame(ack, -1))
      /\ immediates' = Append(immediates,
                              [conn |-> c, sessionId |-> sessionId, lastReceivedId |-> k])
      /\ connected' = [connected EXCEPT ![c] = @ + 1]
      /\ UNCHANGED <<wsIsAlive, wsPinged, clientHistories, disconnected, handled>>

\* a return that leaves the connection open
ReturnWithoutClose(c, code) ==
  UNCHANGED <<wsReadyState, wsCloseCode, wsIsAlive, wsLastSentId, wsSessionId, wsPinged,
              clients, clientHistories, immediates, s2c, connected, disconnected, handled>>

\* extWs.close(code, reason) and return
CloseAndReturn(c, code) ==
  /\ wsReadyState' = wsClose(wsReadyState, c)
  /\ wsCloseCode' = wsCloseWith(wsCloseCode, wsReadyState, c, code)
  /\ UNCHANGED <<wsIsAlive, wsLastSentId, wsSessionId, wsPinged, clients,
                 clientHistories, immediates, s2c, connected, disconnected, handled>>

\* a handler suspended at the await of hook number hook, for the handshake data
Awaited(c, data, hook) ==
  [conn |-> c, sessionId |-> data.sessionId, lastReceivedId |-> data.lastReceivedId,
   hook |-> hook]

\* a handler registered with server.on(command, ...)
Registered(command) == command = "foo"

\* extWs.on("message")
extWsMessage(c) ==
  /\ ServerReads(wsReadyState, c)
  /\ c2s[c] # <<>>
  /\ LET msg == Head(c2s[c])
     IN  /\ c2s' = [c2s EXCEPT ![c] = Tail(@)]
         /\ IF msg.command = "handshake"
              THEN IF msg.data.sessionId = NoSession
                     THEN /\ CloseAndReturn(c, MissingSessionId)
                          /\ UNCHANGED awaiting
                   ELSE IF handshakeListeners = 0
                     THEN /\ AcceptHandshake(c, msg.data.sessionId, msg.data.lastReceivedId)
                          /\ UNCHANGED awaiting
                     ELSE /\ awaiting' = Append(awaiting, Awaited(c, msg.data, 1))
                          /\ UNCHANGED <<wsReadyState, wsCloseCode, wsIsAlive, wsLastSentId,
                                         wsSessionId, wsPinged, clients, clientHistories,
                                         immediates, s2c, connected, disconnected, handled>>
              ELSE IF wsSessionId[c] = NoSession
                     THEN /\ CloseAndReturn(c, HandshakeRequired)
                          /\ UNCHANGED awaiting
                     ELSE /\ s2c' =
                               IF msg.command = "ping"
                                 THEN _send(s2c, wsReadyState, c,
                                            Frame(Packet(msg.id, "pong", NullData), -1))
                               ELSE IF Registered(msg.command)
                                 THEN s2c
                               ELSE _send(s2c, wsReadyState, c,
                                          Frame(Packet(msg.id, "error", NullData), -1))
                          /\ handled' =
                               IF msg.command # "ping" /\ Registered(msg.command)
                                 THEN [handled EXCEPT ![c] = TRUE]
                                 ELSE handled
                          /\ UNCHANGED <<wsReadyState, wsCloseCode, wsIsAlive, wsLastSentId,
                                         wsSessionId, wsPinged, clients, clientHistories,
                                         immediates, awaiting, connected, disconnected>>
  /\ UNCHANGED <<handshakeListeners, clientVars, readyState, opened, obsVars>>

\* HanauServer.onHandshake(fn)
onHandshake ==
  /\ handshakeListeners' = handshakeListeners + 1
  /\ UNCHANGED <<wsReadyState, wsCloseCode, wsIsAlive, wsLastSentId, wsSessionId, wsPinged,
                 clients, clientHistories, immediates, awaiting, connected, disconnected,
                 handled>>
  /\ UNCHANGED <<netVars, clientVars, readyState, opened, obsVars>>

\* the code of the rejection the hook number hook returns
RejectCode(hook) == 4100 + hook

\* the hooks registered: hook number n rejects the handshakes whose data carry
\* lastReceivedId = n and returns true for the others
HookAccepts(hook, data) == data.lastReceivedId # hook

\* the handler resumed by a rejection goes on as if the hook had returned true
HookVerdictIgnored(hook, data) == TRUE

\* the result the handler tests with "result !== true"
HookVerdict(hook, data) == HookAccepts(hook, data)

\* the awaited hook of the i-th suspended handler resolves, with true or with a
\* rejection, and the handler runs on: to the next hook, to the close, or to
\* the rest of the handshake branch
hookResolves(i) ==
  /\ i \in 1 .. Len(awaiting)
  /\ LET a == awaiting[i]
         accepts == HookVerdict(a.hook, a)
         rest == [j \in 1 .. Len(awaiting) - 1 |->
                   IF j < i THEN awaiting[j] ELSE awaiting[j + 1]]
     IN  IF ~accepts
           THEN /\ awaiting' = rest
                /\ CloseAndReturn(a.conn, RejectCode(a.hook))
         ELSE IF a.hook < handshakeListeners
           THEN /\ awaiting' = [awaiting EXCEPT ![i].hook = @ + 1]
                /\ UNCHANGED <<wsReadyState, wsCloseCode, wsIsAlive, wsLastSentId,
                               wsSessionId, wsPinged, clients, clientHistories,
                               immediates, s2c, connected, disconnected, handled>>
           ELSE /\ awaiting' = rest
                /\ AcceptHandshake(a.conn, a.sessionId, a.lastReceivedId)
  /\ UNCHANGED <<handshakeListeners, c2s, clientVars, readyState, opened, obsVars>>

\* extWs.on("close")
extWsClose(c) ==
  /\ wsReadyState[c] \in {"OPEN", "CLOSING", "TERMINATED"}
  /\ \/ wsReadyState[c] # "OPEN"
     \/ readyState[c] \in {"CLOSING", "CLOSED"}
  /\ wsReadyState' = [wsReadyState EXCEPT ![c] = "CLOSED"]
  /\ wsPinged' = [wsPinged EXCEPT ![c] = FALSE]
  /\ c2s' = [c2s EXCEPT ![c] = <<>>]
  /\ clients' = IF wsSessionId[c] # NoSession
                  THEN [clients EXCEPT ![wsSessionId[c]] = NoConn]
                  ELSE clients
  /\ disconnected' = IF wsSessionId[c] # NoSession
                       THEN [disconnected EXCEPT ![c] = @ + 1]
                       ELSE disconnected
  /\ UNCHANGED <<wsCloseCode, wsIsAlive, wsLastSentId, wsSessionId, clientHistories,
                 immediates, handshakeListeners, awaiting, connected, handled>>
  /\ UNCHANGED <<s2c, clientVars, readyState, opened, obsVars>>

\* the setImmediate callback of an accepted handshake: "replay missed messages"
\* (the socket's state is the same for every _send of the loop)
ReplaySend(ch, c, entries, k) ==
  IF Transmits(wsReadyState, c) /\ ClientReads(c)
    THEN [ch EXCEPT ![c] = @ \o [i \in 1 .. Len(entries) |-> Frame(entries[i], k)]]
    ELSE ch

Replay ==
  /\ immediates # <<>>
  /\ LET task == Head(immediates)
         entries == ReplayEntries(clientHistories[task.sessionId], task.lastReceivedId)
     IN  /\ immediates' = Tail(immediates)
         /\ s2c' = ReplaySend(s2c, task.conn, entries, task.lastReceivedId)
  /\ UNCHANGED <<wsReadyState, wsCloseCode, wsIsAlive, wsLastSentId, wsSessionId,
                 wsPinged, clients, clientHistories>>
  /\ UNCHANGED <<handshakeListeners, awaiting, connected, disconnected, handled>>
  /\ UNCHANGED <<c2s, clientVars, readyState, opened, obsVars>>

\* ws.bufferedAmount: the bytes written to the socket that the peer has not taken
bufferedAmount(c) == Len(s2c[c]) * FrameBytes

\* ws.bufferedAmount > 5e6 for the connection bound to the session
OverBuffer(sessionId) ==
  clients[sessionId] # NoConn /\ bufferedAmount(clients[sessionId]) > BufferLimit

\* send() without its first test: a packet for a session that has no open
\* connection is recorded in the history for a later replay
sendRecordsUnbound(sessionId, command, overBuffer) ==
  LET c == clients[sessionId]
      packet == Packet(IF c = NoConn THEN 1 ELSE wsLastSentId[c] + 1, command, NullData)
  IN  /\ sendReturned' = (c = NoConn \/ wsReadyState[c] # "OPEN")
      /\ wsLastSentId' = IF c = NoConn THEN wsLastSentId
                         ELSE [wsLastSentId EXCEPT ![c] = packet.id]
      /\ clientHistories' = [clientHistories EXCEPT ![sessionId] =
                               HistoryTrim(HistorySet(@, packet))]
      /\ s2c' = IF c = NoConn THEN s2c ELSE _send(s2c, wsReadyState, c, Frame(packet, -1))
      /\ UNCHANGED <<wsReadyState, wsCloseCode, wsIsAlive, wsSessionId, wsPinged, clients,
                     immediates, handshakeListeners, awaiting, connected, disconnected,
                     handled>>
      /\ UNCHANGED <<c2s, clientVars, readyState, opened, ackSeen, delivered,
                     closeListenerCalls>>

\* HanauServer.send(sessionId, command, data); overBuffer: ws.bufferedAmount > 5e6
send(sessionId, command, overBuffer) ==
  LET c == clients[sessionId] IN
  /\ IF c = NoConn \/ wsReadyState[c] # "OPEN"
       THEN /\ sendReturned' = TRUE
            /\ UNCHANGED <<serverVars, s2c>>
       ELSE LET packet == Packet(wsLastSentId[c] + 1, command, NullData)
            IN  /\ sendReturned' = FALSE
                /\ wsLastSentId' = [wsLastSentId EXCEPT ![c] = packet.id]
                /\ IF overBuffer
                     THEN /\ wsReadyState' = wsTerminate(wsReadyState, c)
                          /\ clients' = [clients EXCEPT ![sessionId] = NoConn]
                          /\ disconnected' = [disconnected EXCEPT ![c] = @ + 1]
                          /\ UNCHANGED <<clientHistories, s2c>>
                     ELSE /\ clientHistories' =
                               [clientHistories EXCEPT ![sessionId] =
                                  HistoryTrim(HistorySet(@, packet))]
                          /\ s2c' = _send(s2c, wsReadyState, c, Frame(packet, -1))
                          /\ UNCHANGED <<wsReadyState, clients, disconnected>>
                /\ UNCHANGED <<wsCloseCode, wsIsAlive, wsSessionId, wsPinged, immediates,
                               handshakeListeners, awaiting, connected, handled>>
  /\ UNCHANGED <<c2s, clientVars, readyState, opened, ackSeen, delivered,
                 closeListenerCalls>>

\* HanauServer.broadcast(command, data)
BroadcastTargets == {clients[s] : s \in Sessions} \cap {c \in Conns : wsReadyState[c] = "OPEN"}

broadcast(command) ==
  /\ wsLastSentId' = [c \in Conns |->
                        IF c \in BroadcastTargets THEN wsLastSentId[c] + 1
                        ELSE wsLastSentId[c]]
  /\ s2c' = [c \in Conns |->
               IF c \in BroadcastTargets
                 THEN _send(s2c, wsReadyState, c,
                            Frame(Packet(wsLastSentId[c] + 1, command, NullData), -1))[c]
                 ELSE s2c[c]]
  /\ UNCHANGED <<wsReadyState, wsCloseCode, wsIsAlive, wsSessionId, wsPinged, clients,
                 clientHistories, immediates>>
  /\ UNCHANGED <<handshakeListeners, awaiting, connected, disconnected, handled>>
  /\ UNCHANGED <<c2s, clientVars, readyState, opened, obsVars>>

\* the 30 s sweep: this.pingInterval
SweepDead == {clients[s] : s \in Sessions} \cap {c \in Conns : ~wsIsAlive[c]}
SweepLive == {clients[s] : s \in Sessions} \cap {c \in Conns : wsIsAlive[c]}

Sweep ==
  /\ wsReadyState' = [c \in Conns |->
                        IF c \in SweepDead THEN wsTerminate(wsReadyState, c)[c]
                        ELSE wsReadyState[c]]
  /\ clients' = [s \in Sessions |->
                   IF \E c \in SweepDead : wsSessionId[c] = s THEN NoConn ELSE clients[s]]
  /\ wsIsAlive' = [c \in Conns |-> IF c \in SweepLive THEN FALSE ELSE wsIsAlive[c]]
  /\ wsPinged' = [c \in Conns |->
                    IF c \in SweepLive /\ Transmits(wsReadyState, c) /\ ClientReads(c)
                      THEN TRUE ELSE wsPinged[c]]
  /\ disconnected' = [c \in Conns |->
                        IF c \in SweepDead /\ wsSessionId[c] # NoSession
                          THEN disconnected[c] + 1 ELSE disconnected[c]]
  /\ UNCHANGED <<wsCloseCode, wsLastSentId, wsSessionId, clientHistories, immediates>>
  /\ UNCHANGED <<handshakeListeners, awaiting, connected, handled>>
  /\ UNCHANGED <<netVars, clientVars, readyState, opened, obsVars>>

\* --------------------------------------------------------------- client
\* what a handler has changed so far by calling send()
Sending == [lastSentId |-> lastSentId, unsentQueue |-> unsentQueue, c2s |-> c2s]

\* WebSocket.send on an OPEN socket: the frame travels unless the server end is gone
socketSend(ch, c, packet) ==
  IF ServerReads(wsReadyState, c) THEN [ch EXCEPT ![c] = Append(@, Frame(packet, -1))]
  ELSE ch

\* HanauClient.send(command, data), called with the sockets in states rs
clientSend(st, rs, command, data) ==
  LET packet == Packet(st.lastSentId + 1, command, data) IN
  IF ws = NoConn \/ rs[ws] # "OPEN"
    THEN [st EXCEPT !.lastSentId = packet.id, !.unsentQueue = Append(@, packet)]
    ELSE [st EXCEPT !.lastSentId = packet.id, !.c2s = socketSend(@, ws, packet)]

\* HanauClient._reconnect(): the new <<mayReconnect, reconnectCount, reconnectTimers>>
_reconnect(may, count, timers) ==
  IF ~may THEN <<may, count, timers>>
  ELSE IF count > ReconnectLimit THEN <<FALSE, count, timers>>
  ELSE <<TRUE, count + 1, timers + 1>>

\* the delay in ms of the timer _reconnect() sets once it has counted the attempt
ReconnectDelay(count) == 1000 * count

\* the commands a listener is registered for with client.on
Listened(command) == command \in {"handshake_ack", "msg", "news"}

\* HanauClient.open(): a new WebSocket replaces this.ws
open ==
  /\ opened' = opened + 1
  /\ ws' = opened + 1
  /\ readyState' = [readyState EXCEPT ![opened + 1] = "CONNECTING"]

\* the application calls client.open()
clientOpen ==
  /\ \/ ws = NoConn
     \/ ws # NoConn /\ readyState[ws] = "CLOSED" /\ ~mayReconnect
  /\ open
  /\ UNCHANGED <<alive, lastSentId, lastReceivedId, reconnectCount, mayReconnect,
                 handshakeComplete, unsentQueue, pingInterval, handshakeTimeout,
                 handshakeTimers, reconnectTimers>>
  /\ UNCHANGED <<serverVars, netVars, obsVars>>

\* ws.onopen of the socket of connection c; listenerSends: an onOpen listener calls send
onopen(c, listenerSends) ==
  /\ readyState[c] = "CONNECTING"
  /\ wsReadyState[c] # "NONE"
  /\ LET rs == [readyState EXCEPT ![c] = "OPEN"]
         st1 == IF listenerSends THEN clientSend(Sending, rs, "foo", NullData) ELSE Sending
         st2 == clientSend(st1, rs, "handshake",
                           [sessionId |-> SessionID, lastReceivedId |-> lastReceivedId])
     IN  /\ readyState' = rs
         /\ alive' = TRUE
         /\ reconnectCount' = 0
         /\ handshakeComplete' = FALSE
         /\ lastSentId' = st2.lastSentId
         /\ unsentQueue' = st2.unsentQueue
         /\ c2s' = st2.c2s
         /\ pingInterval' = TRUE
         /\ handshakeTimeout' = c
         /\ handshakeTimers' = handshakeTimers \cup {c}
  /\ UNCHANGED <<ws, lastReceivedId, mayReconnect, reconnectTimers, opened>>
  /\ UNCHANGED <<serverVars, s2c, obsVars>>

\* the handshake_ack listener's flush: this.ws.send for every queued packet
\* (a send on a CLOSING or CLOSED socket is dropped without an error)
RECURSIVE FlushSend(_, _)
FlushSend(ch, queue) ==
  IF queue = <<>> THEN ch
  ELSE FlushSend(IF readyState[ws] = "OPEN" THEN socketSend(ch, ws, Head(queue)) ELSE ch,
                 Tail(queue))

\* WebSocket.send throws on a CONNECTING socket: the flush stops at its first packet
FlushThrows == unsentQueue # <<>> /\ readyState[ws] = "CONNECTING"

\* the listener HanauClient's constructor registers for handshake_ack
handshake_ack ==
  /\ handshakeComplete' = TRUE
  /\ handshakeTimers' = handshakeTimers \ {handshakeTimeout}
  /\ c2s' = IF FlushThrows THEN c2s ELSE FlushSend(c2s, unsentQueue)
  /\ unsentQueue' = IF FlushThrows THEN unsentQueue ELSE <<>>

\* _handleMessage discarding only ids below lastReceivedId
DiscardsOlder(msg) == msg.id # 0 /\ msg.id < lastReceivedId

\* HanauClient._handleMessage(msg) returns before the listeners
Discards(msg) == msg.id # 0 /\ msg.id <= lastReceivedId

\* HanauClient._handleMessage(msg)
_handleMessage(msg) ==
  IF Discards(msg)
    THEN UNCHANGED <<lastReceivedId, delivered, handshakeComplete, handshakeTimers,
                     unsentQueue, c2s>>
    ELSE /\ lastReceivedId' = IF msg.id # 0 THEN msg.id ELSE lastReceivedId
         /\ delivered' = IF Listened(msg.command) /\ msg.id # 0
                           THEN Append(delivered, [id |-> msg.id, command |-> msg.command])
                           ELSE delivered
         /\ IF msg.command = "handshake_ack"
              THEN handshake_ack
              ELSE UNCHANGED <<handshakeComplete, handshakeTimers, unsentQueue, c2s>>

\* ws.onmessage of the socket of connection c
onmessage(c) ==
  /\ readyState[c] = "OPEN"
  /\ s2c[c] # <<>>
  /\ LET msg == Head(s2c[c])
     IN  /\ s2c' = [s2c EXCEPT ![c] = Tail(@)]
         /\ ackSeen' = IF msg.command = "handshake_ack" THEN ackSeen \cup {c} ELSE ackSeen
         /\ IF msg.command = "pong"
              THEN /\ alive' = TRUE
                   /\ UNCHANGED <<lastReceivedId, delivered, handshakeComplete,
                                  handshakeTimers, unsentQueue, c2s>>
              ELSE /\ _handleMessage(msg)
                   /\ UNCHANGED alive
  /\ UNCHANGED <<ws, readyState, lastSentId, reconnectCount, mayReconnect, pingInterval,
                 handshakeTimeout, reconnectTimers, opened, closeListenerCalls,
                 sendReturned>>
  /\ UNCHANGED serverVars

\* ws.onclose of the socket of connection c
onclose(c) ==
  /\ readyState[c] \in {"CONNECTING", "OPEN", "CLOSING"}
  /\ LET r == _reconnect(mayReconnect, reconnectCount, reconnectTimers)
     IN  /\ readyState' = [readyState EXCEPT ![c] = "CLOSED"]
         /\ s2c' = [s2c EXCEPT ![c] = <<>>]
         /\ alive' = FALSE
         /\ closeListenerCalls' = closeListenerCalls + 1
         /\ pingInterval' = FALSE
         /\ mayReconnect' = r[1]
         /\ reconnectCount' = r[2]
         /\ reconnectTimers' = r[3]
  /\ UNCHANGED <<ws, lastSentId, lastReceivedId, handshakeComplete, unsentQueue,
                 handshakeTimeout, handshakeTimers, opened>>
  /\ UNCHANGED <<serverVars, c2s, ackSeen, delivered, sendReturned>>

\* HanauClient.close()
close ==
  /\ mayReconnect' = FALSE
  /\ readyState' = IF ws # NoConn /\ readyState[ws] \in {"CONNECTING", "OPEN"}
                     THEN [readyState EXCEPT ![ws] = "CLOSING"]
                     ELSE readyState
  /\ UNCHANGED <<ws, alive, lastSentId, lastReceivedId, reconnectCount, handshakeComplete,
                 unsentQueue, pingInterval, handshakeTimeout, handshakeTimers,
                 reconnectTimers, opened>>
  /\ UNCHANGED <<serverVars, netVars, obsVars>>

\* the application calls client.send(command, data)
clientSendCall(command) ==
  LET st == clientSend(Sending, readyState, command, NullData) IN
  /\ lastSentId' = st.lastSentId
  /\ unsentQueue' = st.unsentQueue
  /\ c2s' = st.c2s
  /\ UNCHANGED <<ws, readyState, alive, lastReceivedId, reconnectCount, mayReconnect,
                 handshakeComplete, pingInterval, handshakeTimeout, handshakeTimers,
                 reconnectTimers, opened>>
  /\ UNCHANGED <<serverVars, s2c, obsVars>>

\* a tick of the interval _startPing() set
pingTick ==
  /\ pingInterval
  /\ IF ~alive
       THEN LET r == _reconnect(mayReconnect, reconnectCount, reconnectTimers)
            IN  /\ mayReconnect' = r[1]
                /\ reconnectCount' = r[2]
                /\ reconnectTimers' = r[3]
                /\ UNCHANGED <<alive, lastSentId, unsentQueue, c2s>>
       ELSE LET st == clientSend(Sending, readyState, "ping", NullData)
            IN  /\ alive' = FALSE
                /\ lastSentId' = st.lastSentId
                /\ unsentQueue' = st.unsentQueue
                /\ c2s' = st.c2s
                /\ UNCHANGED <<mayReconnect, reconnectCount, reconnectTimers>>
  /\ UNCHANGED <<ws, readyState, lastReceivedId, handshakeComplete, pingInterval,
                 handshakeTimeout, handshakeTimers, opened>>
  /\ UNCHANGED <<serverVars, s2c, obsVars>>

\* the 3000 ms timer onopen set (handle t) fires
handshakeTimeoutFires(t) ==
  /\ t \in handshakeTimers
  /\ handshakeTimers' = handshakeTimers \ {t}
  /\ LET r == IF handshakeComplete
                THEN <<mayReconnect, reconnectCount, reconnectTimers>>
                ELSE _reconnect(mayReconnect, reconnectCount, reconnectTimers)
     IN  /\ mayReconnect' = r[1]
         /\ reconnectCount' = r[2]
         /\ reconnectTimers' = r[3]
  /\ UNCHANGED <<ws, readyState, alive, lastSentId, lastReceivedId, handshakeComplete,
                 unsentQueue, pingInterval, handshakeTimeout, opened>>
  /\ UNCHANGED <<serverVars, netVars, obsVars>>

\* the timer's callback without its test of mayReconnect
reconnectFiresUnchecked ==
  /\ reconnectTimers > 0
  /\ reconnectTimers' = reconnectTimers - 1
  /\ open
  /\ UNCHANGED <<alive, lastSentId, lastReceivedId, reconnectCount, mayReconnect,
                 handshakeComplete, unsentQueue, pingInterval, handshakeTimeout,
                 handshakeTimers>>
  /\ UNCHANGED <<serverVars, netVars, obsVars>>

\* a timer _reconnect() set fires
reconnectFires ==
  /\ reconnectTimers > 0
  /\ reconnectTimers' = reconnectTimers - 1
  /\ IF mayReconnect THEN open ELSE UNCHANGED <<ws, readyState, opened>>
  /\ UNCHANGED <<alive, lastSentId, lastReceivedId, reconnectCount, mayReconnect,
                 handshakeComplete, unsentQueue, pingInterval, handshakeTimeout,
                 handshakeTimers>>
  /\ UNCHANGED <<serverVars, netVars, obsVars>>

\* ------------------------------------------- peers that are not HanauClient
\* a peer connects
peerConnect ==
  /\ opened' = opened + 1
  /\ readyState' = [readyState EXCEPT ![opened + 1] = "CONNECTING"]
  /\ UNCHANGED <<serverVars, netVars, clientVars, obsVars>>

\* a connected peer sends a frame
peerSend(c, packet) ==
  /\ ClientReads(c)
  /\ ServerReads(wsReadyState, c)
  /\ c2s' = [c2s EXCEPT ![c] = Append(@, Frame(packet, -1))]
  /\ UNCHANGED <<serverVars, s2c, clientVars, readyState, opened, obsVars>>

\* a peer reads the next frame the server sent it
peerRead(c) ==
  /\ ClientReads(c)
  /\ s2c[c] # <<>>
  /\ s2c' = [s2c EXCEPT ![c] = Tail(@)]
  /\ UNCHANGED <<serverVars, c2s, clientVars, readyState, opened, obsVars>>

\* a peer's end of the connection closes
peerClose(c) ==
  /\ ClientReads(c)
  /\ readyState' = [readyState EXCEPT ![c] = "CLOSED"]
  /\ s2c' = [s2c EXCEPT ![c] = <<>>]
  /\ UNCHANGED <<serverVars, c2s, clientVars, opened, obsVars>>

\* what a peer may send: any handshake, any command
PeerPackets ==
  {Packet(1, "handshake", [sessionId |-> s, lastReceivedId |-> k]) :
     s \in Sessions \cup {NoSession}, k \in 0 .. MaxSentId - 1}
  \cup {Packet(1, command, NullData) : command \in {"ping", "foo", "bar"}}

\* ------------------------------------------- a server that is not HanauServer
\* the server end writes a frame
serverWrites(c, packet) ==
  /\ Transmits(wsReadyState, c)
  /\ ClientReads(c)
  /\ s2c' = [s2c EXCEPT ![c] = Append(@, Frame(packet, -1))]
  /\ UNCHANGED <<serverVars, c2s, clientVars, readyState, opened, obsVars>>

\* the server end reads the next frame
serverReads(c) ==
  /\ c2s[c] # <<>>
  /\ c2s' = [c2s EXCEPT ![c] = Tail(@)]
  /\ UNCHANGED <<serverVars, s2c, clientVars, readyState, opened, obsVars>>

\* what such a server may send
ServerPackets ==
  {Packet(id, command, NullData) :
     id \in 0 .. MaxSentId, command \in {"handshake_ack", "msg"}}
  \cup {Packet(1, command, NullData) : command \in {"pong", "error"}}

\* ------------------------------------------------------- specifications
Init ==
  /\ wsReadyState = [c \in Conns |-> "NONE"]
  /\ wsCloseCode = [c \in Conns |-> 0]
  /\ wsIsAlive = [c \in Conns |-> FALSE]
  /\ wsLastSentId = [c \in Conns |-> 0]
  /\ wsSessionId = [c \in Conns |-> NoSession]
  /\ wsPinged = [c \in Conns |-> FALSE]
  /\ clients = [s \in Sessions |-> NoConn]
  /\ clientHistories = [s \in Sessions |-> <<>>]
  /\ immediates = <<>>
  /\ handshakeListeners = 0
  /\ awaiting = <<>>
  /\ connected = [c \in Conns |-> 0]
  /\ disconnected = [c \in Conns |-> 0]
  /\ handled = [c \in Conns |-> FALSE]
  /\ c2s = [c \in Conns |-> <<>>]
  /\ s2c = [c \in Conns |-> <<>>]
  /\ ws = NoConn
  /\ readyState = [c \in Conns |-> "NONE"]
  /\ alive = FALSE
  /\ lastSentId = 0
  /\ lastReceivedId = 0
  /\ reconnectCount = 0
  /\ mayReconnect = TRUE
  /\ handshakeComplete = FALSE
  /\ unsentQueue = <<>>
  /\ pingInterval = FALSE
  /\ handshakeTimeout = NoConn
  /\ handshakeTimers = {}
  /\ reconnectTimers = 0
  /\ opened = 0
  /\ ackSeen = {}
  /\ closeListenerCalls = 0
  /\ sendReturned = FALSE
  /\ delivered = <<>>

\* the bounds: a handler that would pass one is not taken
CanOpen == opened < MaxConns
ClientCanSend(n) == lastSentId + n <= MaxClientSentId
ServerCanSend(limit) ==
  \A s \in Sessions : clients[s] # NoConn => wsLastSentId[clients[s]] < limit
CanAck(c) == wsLastSentId[c] < MaxSentId
CanDefer == Len(immediates) < MaxImmediates
\* ids stamped so far on the connections 1 .. n
RECURSIVE Stamped(_)
Stamped(n) == IF n = 0 THEN 0 ELSE wsLastSentId[n] + Stamped(n - 1)
HistoryCanSend == Stamped(MaxConns) < MaxHistorySent
\* every connection opened so far has closed at the server
AllClosed == \A c \in Conns : readyState[c] # "NONE" => wsReadyState[c] = "CLOSED"
\* the reader of a direction has read all that was written
Drained(ch) == \A c \in Conns : ch[c] = <<>>

\* the client and the server over a network that loses connections
Next ==
  \/ CanOpen /\ clientOpen
  \/ \E c \in Conns : wssConnection(c)
  \/ \E c \in Conns, b \in BOOLEAN :
       ClientCanSend(IF b THEN 2 ELSE 1) /\ onopen(c, b)
  \/ \E c \in Conns : onmessage(c)
  \/ \E c \in Conns : onclose(c)
  \/ ClientCanSend(1) /\ clientSendCall("foo")
  \/ \E t \in Conns : handshakeTimeoutFires(t)
  \/ (mayReconnect => CanOpen) /\ reconnectFires
  \/ \E c \in Conns : CanAck(c) /\ extWsMessage(c)
  \/ \E c \in Conns : extWsClose(c)
  \/ Replay
  \/ \E s \in Sessions : ServerCanSend(MaxSentId) /\ send(s, "msg", FALSE)
  \/ ServerCanSend(MaxSentId) /\ broadcast("news")

Spec == Init /\ [][Next]_vars

\* the server and peers that send what they like
NextServer ==
  \/ CanOpen /\ peerConnect
  \/ \E c \in Conns, p \in PeerPackets : Drained(c2s) /\ peerSend(c, p)
  \/ \E c \in Conns : peerRead(c)
  \/ \E c \in Conns : peerClose(c)
  \/ \E c \in Conns : wssConnection(c)
  \/ \E c \in Conns : CanAck(c) /\ CanDefer /\ Drained(s2c) /\ extWsMessage(c)
  \/ \E c \in Conns : extWsClose(c)
  \/ Drained(s2c) /\ Replay
  \/ \E s \in Sessions, b \in BOOLEAN :
       ServerCanSend(MaxSentId) /\ Drained(s2c) /\ send(s, "msg", b)
  \/ ServerCanSend(MaxSentId) /\ Drained(s2c) /\ broadcast("news")

SpecServer == Init /\ [][NextServer]_vars

\* the client and a server that sends what it likes
NextClient ==
  \/ CanOpen /\ clientOpen
  \/ \E c \in Conns : wssConnection(c)
  \/ \E c \in Conns, b \in BOOLEAN :
       ClientCanSend(IF b THEN 2 ELSE 1) /\ Drained(c2s) /\ onopen(c, b)
  \/ \E c \in Conns : Drained(c2s) /\ onmessage(c)
  \/ \E c \in Conns : onclose(c)
  \/ close
  \/ ClientCanSend(1) /\ Drained(c2s) /\ clientSendCall("foo")
  \/ \E t \in Conns : handshakeTimeoutFires(t)
  \/ (mayReconnect => CanOpen) /\ reconnectFires
  \/ \E c \in Conns, p \in ServerPackets : Drained(s2c) /\ serverWrites(c, p)
  \/ \E c \in Conns : serverReads(c)

SpecClient == Init /\ [][NextClient]_vars

\* the client's timers, its close() and a server that answers pings or does not
NextKeepalive ==
  \/ CanOpen /\ clientOpen
  \/ \E c \in Conns : wssConnection(c)
  \/ \E c \in Conns : ClientCanSend(1) /\ Drained(c2s) /\ onopen(c, FALSE)
  \/ \E c \in Conns : Drained(c2s) /\ onmessage(c)
  \/ \E c \in Conns : onclose(c)
  \/ close
  \/ ClientCanSend(1) /\ Drained(c2s) /\ pingTick
  \/ \E t \in Conns : handshakeTimeoutFires(t)
  \/ (mayReconnect => CanOpen) /\ reconnectFires
  \/ \E c \in Conns, command \in {"handshake_ack", "pong"} :
       Drained(s2c) /\ serverWrites(c, Packet(1, command, NullData))
  \/ \E c \in Conns : serverReads(c)

SpecKeepalive == Init /\ [][NextKeepalive]_vars

\* the server sending to one session past the history limit
Handshake(k) == Packet(1, "handshake", [sessionId |-> SessionID, lastReceivedId |-> k])

NextHistory ==
  \/ CanOpen /\ AllClosed /\ peerConnect
  \/ \E c \in Conns :
       Drained(c2s) /\ wsSessionId[c] = NoSession /\ peerSend(c, Handshake(0))
  \/ \E c \in Conns : peerRead(c)
  \/ \E c \in Conns : wsSessionId[c] # NoSession /\ Drained(s2c) /\ peerClose(c)
  \/ \E c \in Conns : wssConnection(c)
  \/ \E c \in Conns : extWsMessage(c)
  \/ \E c \in Conns : extWsClose(c)
  \/ Replay
  \/ \E s \in Sessions : HistoryCanSend /\ Drained(s2c) /\ send(s, "msg", FALSE)

SpecHistory == Init /\ [][NextHistory]_vars

\* the server's sweep and peers whose WebSocket answers its pings or is gone
NextHeartbeat ==
  \/ CanOpen /\ peerConnect
  \/ \E c \in Conns, k \in 0 .. 1 :
       Drained(c2s) /\ wsSessionId[c] = NoSession /\ peerSend(c, Handshake(k))
  \/ \E c \in Conns : peerRead(c)
  \/ \E c \in Conns : peerClose(c)
  \/ \E c \in Conns : wssConnection(c)
  \/ \E c \in Conns : CanAck(c) /\ extWsMessage(c)
  \/ \E c \in Conns : extWsPong(c)
  \/ \E c \in Conns : extWsClose(c)
  \/ Replay
  \/ \E s \in Sessions : ServerCanSend(MaxSentId) /\ Drained(s2c) /\ send(s, "msg", FALSE)
  \/ Sweep

SpecHeartbeat == Init /\ [][NextHeartbeat]_vars

\* the server writing to peers that read slowly: what is written and not read
\* counts as the socket's bufferedAmount
NextBackpressure ==
  \/ CanOpen /\ peerConnect
  \/ \E c \in Conns, k \in 0 .. 1 :
       Drained(c2s) /\ wsSessionId[c] = NoSession /\ peerSend(c, Handshake(k))
  \/ \E c \in Conns : peerRead(c)
  \/ \E c \in Conns : peerClose(c)
  \/ \E c \in Conns : wssConnection(c)
  \/ \E c \in Conns : CanAck(c) /\ CanDefer /\ extWsMessage(c)
  \/ \E c \in Conns : extWsClose(c)
  \/ Replay
  \/ \E s \in Sessions : ServerCanSend(MaxSentId) /\ send(s, "msg", OverBuffer(s))
  \/ ServerCanSend(MaxSentId) /\ broadcast("news")

SpecBackpressure == Init /\ [][NextBackpressure]_vars

\* a handshake of the connection is suspended in a hook
Pending(c) == \E i \in 1 .. Len(awaiting) : awaiting[i].conn = c

\* the server with handshake hooks that accept or reject by the data, and peers that
\* handshake on a fresh connection and send commands at any time
NextHooks ==
  \/ CanOpen /\ peerConnect
  \/ handshakeListeners < MaxHooks /\ onHandshake
  \/ \E c \in Conns, s \in Sessions \cup {NoSession}, k \in 0 .. MaxHooks :
       /\ Drained(c2s)
       /\ wsReadyState[c] = "OPEN"
       /\ wsSessionId[c] = NoSession
       /\ ~Pending(c)
       /\ peerSend(c, Packet(1, "handshake", [sessionId |-> s, lastReceivedId |-> k]))
  \/ \E c \in Conns, command \in {"ping", "foo", "bar"} :
       Drained(c2s) /\ peerSend(c, Packet(1, command, NullData))
  \/ \E c \in Conns : peerRead(c)
  \/ \E c \in Conns : peerClose(c)
  \/ \E c \in Conns : wssConnection(c)
  \/ \E c \in Conns :
       /\ CanAck(c) /\ CanDefer /\ Drained(s2c)
       /\ Len(awaiting) < MaxAwaiting
       /\ extWsMessage(c)
  \/ \E i \in 1 .. Len(awaiting) :
       CanAck(awaiting[i].conn) /\ CanDefer /\ Drained(s2c) /\ hookResolves(i)
  \/ \E c \in Conns : extWsClose(c)
  \/ Replay
  \/ \E s \in Sessions : ServerCanSend(MaxSentId) /\ Drained(s2c) /\ send(s, "msg", FALSE)

SpecHooks == Init /\ [][NextHooks]_vars

\* the client sending a command the server has no handler for
NextEcho ==
  \/ CanOpen /\ clientOpen
  \/ \E c \in Conns : wssConnection(c)
  \/ \E c \in Conns : ClientCanSend(1) /\ onopen(c, FALSE)
  \/ \E c \in Conns : onmessage(c)
  \/ \E c \in Conns : onclose(c)
  \/ ClientCanSend(1) /\ Drained(c2s) /\ clientSendCall("bar")
  \/ \E t \in Conns : handshakeTimeoutFires(t)
  \/ (mayReconnect => CanOpen) /\ reconnectFires
  \/ \E c \in Conns : CanAck(c) /\ Drained(s2c) /\ extWsMessage(c)
  \/ \E c \in Conns : extWsClose(c)
  \/ Replay
  \/ \E s \in Sessions : ServerCanSend(MaxSentId) /\ Drained(s2c) /\ send(s, "msg", FALSE)

SpecEcho == Init /\ [][NextEcho]_vars

\* ------------------------------------------------------------ properties
\* the frames a step appends to a direction of connection c
WrittenS2C(c) ==
  IF Len(s2c'[c]) > Len(s2c[c]) THEN SubSeq(s2c'[c], Len(s2c[c]) + 1, Len(s2c'[c]))
  ELSE <<>>

WrittenC2S(c) ==
  IF Len(c2s'[c]) > Len(c2s[c]) THEN SubSeq(c2s'[c], Len(c2s[c]) + 1, Len(c2s'[c]))
  ELSE <<>>

\* the step is the server's message handler reading the frame at the head of c2s[c]
ServerReadsHead(c) ==
  /\ ServerReads(wsReadyState, c)
  /\ ServerReads(wsReadyState', c)
  /\ c2s[c] # <<>>
  /\ c2s'[c] = Tail(c2s[c])

\* the step is the client's onmessage reading the frame at the head of s2c[c]
ClientReadsHead(c) ==
  /\ readyState[c] = "OPEN"
  /\ readyState'[c] = "OPEN"
  /\ s2c[c] # <<>>
  /\ s2c'[c] = Tail(s2c[c])

\* C1: within one session the ids the server stamps on outbound packets
\* (handshake_ack, send, broadcast) are strictly increasing over the life of the
\* session, across re-handshakes on new connections: an id stamped on a
\* connection of a session is greater than every id stamped before on any
\* connection of that session.
C1_SessionIdsIncrease ==
  [][\A c \in Conns :
       wsLastSentId'[c] > wsLastSentId[c] =>
         \A d \in Conns :
           wsSessionId[d] = wsSessionId'[c] => wsLastSentId'[c] > wsLastSentId[d]]_vars

\* C2: every session's history holds at most 100 entries; a send() that takes
\* the history over 100 entries removes exactly one entry, the one with the
\* smallest id among the entries held and the one sent, and nothing else is
\* ever removed.
C2_HistoryLimit ==
  [][\A s \in Sessions :
       LET old == Keys(clientHistories[s])
           new == Keys(clientHistories'[s])
       IN  /\ Len(clientHistories'[s]) <= HistoryLimit
           /\ Cardinality(new) = Len(clientHistories'[s])
           /\ old \ new # {} =>
                /\ Cardinality(old \ new) = 1
                /\ Len(clientHistories[s]) = HistoryLimit
                /\ \A r \in old \ new : \A k \in new : r < k
           /\ \A c \in Conns :
                \A i \in 1 .. Len(WrittenS2C(c)) :
                  LET f == WrittenS2C(c)[i]
                      all == old \cup {f.id}
                  IN  (f.replayOf = -1 /\ f.command = "msg" /\ wsSessionId[c] = s) =>
                        new = IF Cardinality(all) > HistoryLimit
                                THEN all \ {CHOOSE m \in all : \A k \in all : m <= k}
                                ELSE all]_vars

\* C2 happens: the history is full and its first sends have been evicted
C2_EvictionHappened ==
  \E s \in Sessions :
    /\ Len(clientHistories[s]) = HistoryLimit
    /\ OldestId(clientHistories[s]) > 2

\* C3: the frames the replay of a handshake with lastReceivedId = k writes are
\* exactly the session's history entries with id > k, in strictly increasing
\* id order.
C3_ReplayInIdOrder ==
  [][(immediates # <<>> /\ immediates' = Tail(immediates)) =>
       LET task == Head(immediates)
           w == WrittenS2C(task.conn)
           missed == {id \in Keys(clientHistories[task.sessionId]) :
                        id > task.lastReceivedId}
       IN  /\ (Transmits(wsReadyState, task.conn) /\ ClientReads(task.conn)) =>
                /\ {w[i].id : i \in 1 .. Len(w)} = missed
                /\ Len(w) = Cardinality(missed)
           /\ \A i \in 1 .. Len(w) - 1 : w[i].id < w[i + 1].id]_vars

\* C4: when a handshake binds a session that is bound to another connection,
\* that connection is no longer open once the new one is in the registry: the
\* handler has closed it with code 4002 (a connection that was closing already
\* stays as it was).  The registry holds one connection per session id.
C4_DuplicateSessionClosed ==
  [][\A s \in Sessions :
       LET oldWs == clients[s]
           newWs == clients'[s]
       IN  (oldWs # NoConn /\ newWs # NoConn /\ newWs # oldWs) =>
             /\ wsReadyState'[oldWs] # "OPEN"
             /\ wsReadyState[oldWs] = "OPEN" =>
                  /\ wsReadyState'[oldWs] = "CLOSING"
                  /\ wsCloseCode'[oldWs] = DuplicateSession
             /\ Cardinality({c \in Conns : clients'[s] = c}) = 1]_vars

\* C4 happens: a connection evicted with 4002 while another one is bound
C4_Evicted ==
  \E s \in Sessions, oldWs \in Conns :
    /\ clients[s] \notin {NoConn, oldWs}
    /\ wsSessionId[oldWs] = s
    /\ wsReadyState[oldWs] = "CLOSING"
    /\ wsCloseCode[oldWs] = DuplicateSession

\* C5: end to end, the client's listeners are invoked for every replayed
\* history entry whose id is greater than the lastReceivedId of the handshake:
\* when the client reads such a frame, the packet has been delivered to its
\* listeners (now, or before as the same packet sent directly).
C5_ReplayDelivered ==
  [][\A c \in Conns :
       (/\ ClientReadsHead(c)
        /\ Head(s2c[c]).replayOf >= 0
        /\ Head(s2c[c]).id > Head(s2c[c]).replayOf) =>
         \E i \in 1 .. Len(delivered') :
           delivered'[i] = [id |-> Head(s2c[c]).id, command |-> Head(s2c[c]).command]]_vars

\* C6: on every connection, a handshake_ack the client reads on its current
\* socket before that connection's handshake timer has fired sets
\* handshakeComplete, cancels the timer and flushes the outbound queue.
C6_AckCompletesHandshake ==
  [][\A c \in Conns :
       (/\ ClientReadsHead(c)
        /\ c = ws
        /\ Head(s2c[c]).command = "handshake_ack"
        /\ c \in handshakeTimers) =>
         /\ handshakeComplete'
         /\ c \notin handshakeTimers'
         /\ unsentQueue' = <<>>]_vars

\* C7: the packets queued by send() calls made while disconnected are written
\* to the new connection, once each and in the order of the calls, when the
\* client reads the handshake_ack of that connection, and the queue is empty
\* afterwards.
C7_QueueFlushedInOrder ==
  [][\A c \in Conns :
       (/\ ClientReadsHead(c)
        /\ c = ws
        /\ Head(s2c[c]).command = "handshake_ack"
        /\ ServerReads(wsReadyState, c)
        /\ unsentQueue # <<>>) =>
         /\ WrittenC2S(c) = [i \in 1 .. Len(unsentQueue) |-> Frame(unsentQueue[i], -1)]
         /\ unsentQueue' = <<>>]_vars

\* C8: the client writes no packet other than its handshake to a connection
\* before it has received that connection's handshake_ack.
C8_OnlyHandshakeBeforeAck ==
  [][\A c \in Conns :
       \A i \in 1 .. Len(WrittenC2S(c)) :
         WrittenC2S(c)[i].command # "handshake" => c \in ackSeen']_vars

\* C9: the non-zero ids the client invokes listeners for are strictly
\* increasing, a packet with a non-zero id <= lastReceivedId changes nothing and
\* reaches no listener, and lastReceivedId never decreases.
C9_DeliveredIdsIncrease ==
  [][/\ lastReceivedId' >= lastReceivedId
     /\ delivered' # delivered =>
          /\ Len(delivered') = Len(delivered) + 1
          /\ SubSeq(delivered', 1, Len(delivered)) = delivered
          /\ delivered'[Len(delivered')].id > lastReceivedId
          /\ delivered'[Len(delivered')].id = lastReceivedId'
          /\ \A i \in 1 .. Len(delivered) : delivered[i].id < delivered'[Len(delivered')].id
     /\ \A c \in Conns :
          (/\ ClientReadsHead(c)
           /\ Head(s2c[c]).command # "pong"
           /\ Head(s2c[c]).id # 0
           /\ Head(s2c[c]).id <= lastReceivedId) =>
            UNCHANGED <<delivered, lastReceivedId, handshakeComplete, unsentQueue, c2s>>]_vars

\* C9 happens: listeners have run for two packets and the client is about to
\* read a packet whose id is not above lastReceivedId
C9_DuplicateArrives ==
  /\ Len(delivered) >= 2
  /\ \E c \in Conns :
       /\ readyState[c] = "OPEN"
       /\ s2c[c] # <<>>
       /\ Head(s2c[c]).command = "msg"
       /\ Head(s2c[c]).id # 0
       /\ Head(s2c[c]).id <= lastReceivedId

\* C10: a packet the server writes with an id it assigned in send() or
\* broadcast() is in the session's history when it is written.
C10_RecordedBeforeWritten ==
  [][\A c \in Conns :
       \A i \in 1 .. Len(WrittenS2C(c)) :
         LET f == WrittenS2C(c)[i]
         IN  (f.replayOf = -1 /\ f.command \in {"msg", "news"}) =>
               /\ wsSessionId[c] # NoSession
               /\ \E j \in 1 .. Len(clientHistories'[wsSessionId[c]]) :
                    clientHistories'[wsSessionId[c]][j] = Packet(f.id, f.command, f.data)]_vars

\* C11: a connection whose unsent buffered byte count exceeds 5,000,000 is
\* written no further packet by any server operation (send, broadcast, replay):
\* a step of the server never appends a frame to a bound connection whose
\* bufferedAmount is above the threshold.
C11_NoWriteOverThreshold ==
  [][\A c \in Conns :
       (wsSessionId[c] # NoSession /\ bufferedAmount(c) > BufferLimit)
         => WrittenS2C(c) = <<>>]_vars

\* C12: for a connection that stops answering liveness pings and is terminated
\* by the sweep, the disconnection listeners are invoked exactly once, the
\* sweep's own notification and the connection's close event counted together:
\* never more than once for a connection, and once when a bound connection has
\* closed.
C12_DisconnectionOnce ==
  \A c \in Conns :
    /\ disconnected[c] <= 1
    /\ (wsReadyState[c] = "CLOSED" /\ wsSessionId[c] # NoSession) => disconnected[c] = 1

\* C13: in a run of consecutive failed attempts (reconnectCount is not reset),
\* every automatic reconnect the client schedules has a delay strictly larger
\* than the one before it, and the client schedules at most 5 of them before
\* it stops reconnecting: a step that sets a reconnect timer counts one attempt
\* more, with a larger delay, and the count does not pass 5.
C13_AtMostFiveReconnects ==
  [][reconnectTimers' > reconnectTimers =>
       /\ reconnectCount' = reconnectCount + 1
       /\ ReconnectDelay(reconnectCount') > ReconnectDelay(reconnectCount)
       /\ reconnectCount' <= ReconnectLimit]_vars

\* C14: for every accepted handshake the handshake_ack is written to the
\* connection before any replayed history entry of that handshake, and the
\* replay is deferred to after the turn in which the ack was sent: the step that
\* accepts a handshake defers its replay and writes the connection the ack and
\* nothing else, and replayed entries are written only by the deferred callback
\* of a handshake accepted in an earlier step, never together with an ack.
C14_AckBeforeReplay ==
  [][\A c \in Conns :
       LET written == WrittenS2C(c)
           replayed == \E i \in 1 .. Len(written) : written[i].replayOf # -1
           acked == \E i \in 1 .. Len(written) : written[i].command = "handshake_ack"
       IN  /\ replayed =>
                /\ ~acked
                /\ immediates # <<>>
                /\ Head(immediates).conn = c
                /\ immediates' = Tail(immediates)
                /\ wsSessionId[c] # NoSession
                /\ wsLastSentId[c] > 0
           /\ acked =>
                /\ Len(written) = 1
                /\ Len(immediates') = Len(immediates) + 1
                /\ immediates'[Len(immediates')].conn = c
           /\ (Len(immediates') > Len(immediates) /\ immediates'[Len(immediates')].conn = c) =>
                /\ ~replayed
                /\ (Transmits(wsReadyState', c) /\ ClientReads(c)) => acked]_vars

\* an unread handshake_ack is followed on its connection by a replayed entry
C14_ReplayAfterAck ==
  \E c \in Conns : \E i, j \in 1 .. Len(s2c[c]) :
    /\ i < j
    /\ s2c[c][i].command = "handshake_ack"
    /\ s2c[c][j].replayOf # -1

\* C15: a non-handshake command received on a connection that is not bound to
\* a session closes the connection with code 4003, invokes no command handler
\* and sends no pong or error reply, also when it arrives after the
\* connection's handshake while a validation hook of that handshake is pending:
\* after the handler's step the connection is closing (with code 4003 if it
\* was open), no handler has run and nothing was written to any connection.
C15_HandshakeRequired ==
  [][\A c \in Conns :
       (/\ ServerReadsHead(c)
        /\ Head(c2s[c]).command # "handshake"
        /\ wsSessionId[c] = NoSession)
         => /\ wsReadyState'[c] = "CLOSING"
            /\ wsReadyState[c] = "OPEN" => wsCloseCode'[c] = HandshakeRequired
            /\ handled' = handled
            /\ s2c' = s2c
            /\ UNCHANGED <<wsSessionId, clients, clientHistories, awaiting>>]_vars

\* a connection was closed with 4003 while a hook of its handshake is pending
C15_ClosedWhileHookPending ==
  \E c \in Conns : \E i \in 1 .. Len(awaiting) :
    /\ awaiting[i].conn = c
    /\ wsReadyState[c] = "CLOSING"
    /\ wsCloseCode[c] = HandshakeRequired
    /\ wsSessionId[c] = NoSession

\* the handshake suspended in a hook that the step resumes and ends (0: none)
Resumed ==
  IF Len(awaiting') < Len(awaiting)
    THEN CHOOSE i \in 1 .. Len(awaiting) :
           awaiting' = [j \in 1 .. Len(awaiting) - 1 |->
                          IF j < i THEN awaiting[j] ELSE awaiting[j + 1]]
    ELSE 0

\* the step rejects a handshake on connection c: nothing but the close happens
RejectedOn(c, code) ==
  /\ wsReadyState'[c] # "OPEN"
  /\ wsReadyState[c] = "OPEN" => wsCloseCode'[c] = code
  /\ \A d \in Conns \ {c} : wsReadyState'[d] = wsReadyState[d] /\ wsCloseCode'[d] = wsCloseCode[d]
  /\ UNCHANGED <<wsSessionId, clients, clientHistories, wsLastSentId, immediates, s2c,
                 connected, disconnected>>

\* C16: handshake hooks run in registration order; at the first hook that
\* rejects, the connection is closed with that hook's code, no later hook runs
\* and the rejected handshake changes nothing else: the connection is not
\* bound, the connection bound to the session id is not evicted, no
\* handshake_ack is sent, no connection listener fires, registry and histories
\* stay as they are.  The same holds for a handshake without sessionId, closed
\* with 4001 before any hook runs.
C16_RejectionShortCircuits ==
  [][/\ \* a handshake enters the hooks at the first one
        Len(awaiting') > Len(awaiting) =>
          /\ awaiting' = Append(awaiting, awaiting'[Len(awaiting')])
          /\ awaiting'[Len(awaiting')].hook = 1
          /\ awaiting'[Len(awaiting')].sessionId # NoSession
     /\ \* it goes from a hook to the next one only, and only when the hook accepted
        Len(awaiting') = Len(awaiting) =>
          \A i \in 1 .. Len(awaiting) :
            awaiting'[i] # awaiting[i] =>
              /\ HookAccepts(awaiting[i].hook, awaiting[i])
              /\ awaiting'[i] = [awaiting[i] EXCEPT !.hook = @ + 1]
              /\ awaiting'[i].hook <= handshakeListeners
     /\ \* it is accepted after the last hook, and rejected by the one that rejects
        Len(awaiting') < Len(awaiting) =>
          LET a == awaiting[Resumed]
          IN  IF HookAccepts(a.hook, a)
                THEN /\ a.hook >= handshakeListeners
                     /\ wsSessionId'[a.conn] = a.sessionId
                     /\ clients'[a.sessionId] = a.conn
                     /\ connected'[a.conn] = connected[a.conn] + 1
                ELSE RejectedOn(a.conn, RejectCode(a.hook))
     /\ \* without sessionId no hook runs
        \A c \in Conns :
          (/\ ServerReadsHead(c)
           /\ Head(c2s[c]).command = "handshake"
           /\ Head(c2s[c]).data.sessionId = NoSession)
            => RejectedOn(c, MissingSessionId) /\ awaiting' = awaiting]_vars

\* the second hook rejected the handshake of a connection while another
\* connection holds the session: the first stays open and bound
C16_SecondHookRejected ==
  \E c, d \in Conns :
    /\ c # d
    /\ wsReadyState[c] = "OPEN"
    /\ clients[SessionID] = c
    /\ wsReadyState[d] = "CLOSING"
    /\ wsCloseCode[d] = RejectCode(2)
    /\ wsSessionId[d] = NoSession
    /\ connected[d] = 0

\* C17: after the client's close() no automatic transition opens a new
\* physical connection: once mayReconnect is false it stays false, no step
\* sets a reconnect timer, and a reconnect timer that fires opens nothing; a
\* handshake timeout, a ping timeout and the socket's close event leave the
\* client without a new connection (only the caller's open() makes one).
C17_NoAutomaticOpenAfterClose ==
  [][/\ ~mayReconnect =>
          /\ ~mayReconnect'
          /\ reconnectTimers' <= reconnectTimers
          /\ reconnectTimers' # reconnectTimers => UNCHANGED <<opened, ws, readyState>>
     /\ (opened' # opened /\ reconnectTimers' # reconnectTimers) => mayReconnect]_vars

\* close() was called on the first connection with reconnect timers pending,
\* and the timers have fired since without opening a second connection
C17_TimersFiredAfterClose ==
  /\ ~mayReconnect
  /\ opened = 1
  /\ readyState[1] = "CLOSED"
  /\ reconnectCount \in 1 .. ReconnectLimit
  /\ reconnectTimers = 0
  /\ handshakeTimers = {}

\* the step is a tick of the ping interval that finds the client not alive
PingTimeout ==
  /\ pingInterval
  /\ ~alive
  /\ mayReconnect
  /\ reconnectCount <= ReconnectLimit
  /\ reconnectCount' = reconnectCount + 1
  /\ UNCHANGED <<readyState, handshakeTimers>>

\* C18: a client liveness timeout (a ping tick with alive = false) takes the
\* path of an ungraceful socket close: the client is marked not alive, the
\* close listeners are notified, the liveness timer is stopped and one
\* reconnect is scheduled.
C18_PingTimeoutLikeClose ==
  [][PingTimeout =>
       /\ ~alive'
       /\ closeListenerCalls' = closeListenerCalls + 1
       /\ ~pingInterval'
       /\ reconnectTimers' = reconnectTimers + 1]_vars

\* the step is _reconnect() giving up with the socket left as it is (a timer
\* found the attempts exhausted; close() would have closed the live socket)
GivesUp ==
  /\ mayReconnect
  /\ ~mayReconnect'
  /\ reconnectCount > ReconnectLimit
  /\ ws # NoConn
  /\ readyState[ws] \in {"CONNECTING", "OPEN"}
  /\ UNCHANGED readyState

\* C19: when the client exhausts its reconnection attempts and gives up, the
\* give-up is surfaced to the application: a close listener is invoked in the
\* step that gives up, and no reconnect is scheduled by it.
C19_GiveUpSurfaced ==
  [][GivesUp =>
       /\ closeListenerCalls' > closeListenerCalls
       /\ reconnectTimers' <= reconnectTimers]_vars

\* C20: a connection that has completed its handshake stays bound to its
\* session until that same connection closes, is terminated, or is evicted by
\* a later handshake; the close event of another connection of the session
\* never removes the binding and never fires a disconnection notification for
\* the session while the bound connection is open.
C20_BindingOutlivesPredecessor ==
  [][\A s \in Sessions : \A c \in Conns :
       (clients[s] = c /\ wsReadyState[c] = "OPEN")
         => /\ clients'[s] # c =>
                 \/ wsReadyState'[c] # "OPEN"
                 \/ clients'[s] # NoConn
            /\ \A d \in Conns \ {c} :
                 wsSessionId[d] = s => disconnected'[d] = disconnected[d]]_vars

\* C21: the registry never binds a session to a connection that has already
\* closed: when a connection closes while a hook of its handshake is awaited,
\* the continuation of the handshake neither binds the connection nor evicts
\* the connection bound to the session.  No session is bound to a closed
\* connection.
C21_NoClosedConnectionBound ==
  \A s \in Sessions : clients[s] # NoConn => wsReadyState[clients[s]] # "CLOSED"

\* the client's sockets that are connecting or open
LiveSockets == {c \in Conns : readyState[c] \in {"CONNECTING", "OPEN"}}

\* C22: the client has at most one open physical connection and at most one
\* pending reconnect timer at any time: a handshake timeout or ping timeout
\* opens no second socket while the previous one is still open, and sets no
\* second timer.
C22_OneSocketOneTimer ==
  /\ Cardinality(LiveSockets) <= 1
  /\ reconnectTimers <= 1

\* C23: the client's lastReceivedId is only ever set to an id the server
\* assigned from its own outbound counter; a reply that echoes a
\* client-assigned id (the error packet for an unknown command) does not
\* change lastReceivedId: the step in which the client reads an error frame
\* leaves lastReceivedId as it is.
C23_EchoedIdNotRecorded ==
  [][\A c \in Conns :
       (ClientReadsHead(c) /\ Head(s2c[c]).command = "error")
         => lastReceivedId' = lastReceivedId]_vars

\* C24: each history entry is transmitted at most once on any one physical
\* connection: a packet that send() recorded and transmitted on the connection
\* after its handshake_ack and before the deferred replay runs is not
\* transmitted again by that replay.  A step never writes a connection a
\* replayed entry whose id is carried by a frame sent on that connection that
\* the peer has yet to read.
C24_ReplaySendsOnce ==
  [][\A c \in Conns :
       \A i \in 1 .. Len(WrittenS2C(c)) :
         WrittenS2C(c)[i].replayOf # -1 =>
           \A j \in 1 .. Len(s2c[c]) :
             ~(s2c[c][j].command = "msg" /\ s2c[c][j].id = WrittenS2C(c)[i].id)]_vars

\* C25: send() to a session id that has no bound connection, or whose bound
\* connection is not open, changes nothing: no id is consumed, the history is
\* unchanged, nothing is transmitted and no listener fires, so the packet is
\* not replayed on a later handshake.  The call that returns at the first test
\* leaves every field of the server, both directions of every connection and
\* the client as they were; a history changes, and a packet of send() is
\* written, only for a session that is bound to an open connection.
C25_SendWithoutConnection ==
  [][/\ (~sendReturned /\ sendReturned') =>
          /\ \E s \in Sessions : clients[s] = NoConn \/ wsReadyState[clients[s]] # "OPEN"
          /\ UNCHANGED <<serverVars, netVars, clientVars, readyState, opened>>
     /\ \A s \in Sessions :
          clientHistories'[s] # clientHistories[s] =>
            /\ clients[s] # NoConn
            /\ wsReadyState[clients[s]] = "OPEN"
            /\ ~sendReturned'
     /\ \A c \in Conns : \A i \in 1 .. Len(WrittenS2C(c)) :
          (WrittenS2C(c)[i].command = "msg" /\ WrittenS2C(c)[i].replayOf = -1) =>
            /\ wsSessionId[c] # NoSession
            /\ clients[wsSessionId[c]] = c
            /\ wsReadyState[c] = "OPEN"]_vars

\* send() returned at its first test for a session that has a history and had
\* a connection, which is closing or gone
C25_SendDropped ==
  /\ sendReturned
  /\ clientHistories[SessionID] # <<>>
  /\ \E c \in Conns : wsSessionId[c] = SessionID /\ wsReadyState[c] \in {"CLOSING", "CLOSED"}
  /\ clients[SessionID] = NoConn \/ wsReadyState[clients[SessionID]] # "OPEN"

=========================================================================
